---- MODULE Spec2Model ----
(***************************************************************************)
(* Verification model of three solvers of the aoc2023 repository:          *)
(*   day 17  constrained-step shortest path   (src/src/day17.rs)           *)
(*   day 12  memoized arrangement counting    (src/src/day12.rs)           *)
(*   day 14  rock sliding with cycle detection (src/src/day14.rs)          *)
(* Each solver has its own specification (Spec17, Spec12, Spec14); the     *)
(* variables of the other solvers stay at their idle values.               *)
(***************************************************************************)
EXTENDS Integers, Sequences, FiniteSets, TLC

VARIABLES
    pc,         \* position of the running solver
    input,      \* day 17: the text handed to parse_grid, a sequence of lines of bytes
    grid,       \* day 17: the Grid parse_grid built
    min_steps,  \* day 17: argument of min_heat_loss
    max_steps,  \* day 17: argument of min_heat_loss
    queue,      \* day 17: the BinaryHeap, as the set of its (dist, node) entries
    dists,      \* day 17: the dense distance array
    expanded,   \* day 17: history: the (dist, node) entries popped and not skipped, in order
    skipped,    \* day 17: history: the (dist, node) entries popped and skipped as stale, in order
    result,     \* the value the solver returned
    start14,    \* day 14: the grid parse_grid built, before any spin cycle
    grid14,     \* day 14: the grid of part2, mutated in place
    seen,       \* day 14: the map from grid state to iteration index
    i14,        \* day 14: the loop counter i of part2
    target,     \* day 14: the number of spin cycles asked for (1_000_000_000 in the source)
    part,       \* day 12: 1 for part1, 2 for part2
    rows,       \* day 12: the rows parse_input built (rewritten in place by part2)
    cache,      \* day 12: the cache shared by the rows, a function from (springs, blocks)
    idx12,      \* day 12: the number of the row the iterator yields next
    counts,     \* day 12: what count_arrangements returned, row by row
    sum12,      \* day 12: the accumulator of sum::<usize>()
    wrapped,    \* day 12: an addition has wrapped silently (the build has no overflow checks)
    t6,         \* day 6: the time of the race handed to ways_to_win
    r6,         \* day 6: the record of the race
    lo6,        \* day 6: the local lo of ways_to_win
    lhs5,       \* day 5: the map compose is called on (self), ranges sorted by src
    rhs5,       \* day 5: the argument rhs of compose, ranges sorted by src
    lhs_ranges, \* day 5: the working copy of self.ranges
    rhs_ranges, \* day 5: the working copy of rhs.ranges, sorted by dst
    out_ranges, \* day 5: the ranges pushed so far
    i5,         \* day 5: the index i into lhs_ranges (0-based)
    j5,         \* day 5: the index j into rhs_ranges (0-based)
    graph23,    \* day 23: graph.vertices: for each vertex its four neighbor slots
    end23,      \* day 23: the argument end of longest_path
    visited23,  \* day 23: the visited array of longest_path
    stack23,    \* day 23: the call stack of dfs, innermost frame last
    ret23       \* day 23: the value the call of dfs that ended last returned

vars17 == <<input, grid, min_steps, max_steps, queue, dists, expanded, skipped>>
vars14 == <<start14, grid14, seen, i14, target>>
vars12 == <<part, rows, cache, idx12, counts, sum12, wrapped>>
vars6 == <<t6, r6, lo6>>
vars5 == <<lhs5, rhs5, lhs_ranges, rhs_ranges, out_ranges, i5, j5>>
vars23 == <<graph23, end23, visited23, stack23, ret23>>
vars == <<pc, result, vars17, vars14, vars12, vars6, vars5, vars23>>

\* the variables of day 6 while another solver runs
Idle6 ==
    /\ t6 = 0
    /\ r6 = 0
    /\ lo6 = 0

\* the variables of day 5 while another solver runs
Idle5 ==
    /\ lhs5 = <<>>
    /\ rhs5 = <<>>
    /\ lhs_ranges = <<>>
    /\ rhs_ranges = <<>>
    /\ out_ranges = <<>>
    /\ i5 = 0
    /\ j5 = 0

\* the variables of day 23 while another solver runs
Idle23 ==
    /\ graph23 = <<>>
    /\ end23 = 0
    /\ visited23 = <<>>
    /\ stack23 = <<>>
    /\ ret23 = 0

-----------------------------------------------------------------------------
(* Bounds of the model *)

MaxDim == 3        \* grids are at most MaxDim x MaxDim
MaxHeavy == 2      \* at most MaxHeavy cells cost HeavyCost, the others cost 1
HeavyCost == 5
MaxSteps == 3      \* max_steps <= MaxSteps
MaxDim14 == 3      \* day 14: grids are at most MaxDim14 x MaxDim14
MaxRocks == 3      \* day 14: at most MaxRocks cells are Round or Square
MaxLen == 4        \* day 12: part1 rows have at most MaxLen springs
MaxRuns == 2       \* day 12: rows have at most MaxRuns blocks
MaxRun == 2        \* day 12: blocks are at most MaxRun long
MaxLen2 == 2       \* day 12: part2 rows have at most MaxLen2 springs before the rewrite
MaxUnknown == 6    \* day 12: the rows of n Unknown springs have n <= MaxUnknown
AccBits == 5       \* day 12: usize scaled down to AccBits bits
MaxTarget == 7     \* day 14: the target iteration count is at most MaxTarget
MaxVertices23 == 3 \* day 23: graphs have at most MaxVertices23 vertices
MaxEdges23 == 4    \* day 23: graphs have at most MaxEdges23 edges
MaxDist23 == 2     \* day 23: an edge is at most MaxDist23 steps long
MaxVal5 == 2       \* day 5: the src and dst of a range are at most MaxVal5
MaxLen5 == 2       \* day 5: the len of a range is at most MaxLen5
MaxRanges5 == 2    \* day 5: a map has at most MaxRanges5 ranges
MaxTime6 == 8      \* day 6: the time of a race is at most MaxTime6
MaxRecord6 == 20   \* day 6: the record of a race is at most MaxRecord6
UsizeBits6 == 16   \* day 6: usize scaled down to UsizeBits6 bits

-----------------------------------------------------------------------------
(* Helpers *)

Min2(a, b) == IF a <= b THEN a ELSE b

SetMin(S) == CHOOSE m \in S : \A n \in S : m <= n

RECURSIVE SumTo(_, _, _)
\* sum of f[i] for i in lo..hi (0 when the range is empty)
SumTo(f, lo, hi) == IF lo > hi THEN 0 ELSE f[lo] + SumTo(f, lo + 1, hi)

RECURSIVE Flatten(_)
Flatten(ss) == IF ss = <<>> THEN <<>> ELSE Head(ss) \o Flatten(Tail(ss))

U8(n) == n % 256

-----------------------------------------------------------------------------
(* Day 17: constrained-step shortest path (src/src/day17.rs) *)

NORTH == 0
SOUTH == 1
EAST == 2
WEST == 3
START == 4

\* usize::MAX, the "unvisited" distance; no distance of the model comes near
\* it, so the largest integer of the checker stands for it
USIZE_MAX == 2147483647

\* b'0'
ByteZero == 48

\* Grid::get: the index into data is in range (it panics otherwise)
CellOk(g, x, y) == y * g.width + x < Len(g.data)

Get(g, x, y) == g.data[y * g.width + x + 1]

\* parse_grid, release build: b - b'0' wraps for a byte below b'0'
parse_grid(in) ==
    [data   |-> Flatten([l \in 1..Len(in) |->
                    [c \in 1..Len(in[l]) |-> U8(in[l][c] - ByteZero)]]),
     width  |-> IF in = <<>> THEN 0 ELSE U8(Len(in[Len(in)])),
     height |-> U8(Len(in))]

\* b - b'0' overflows for some byte: a panic in a build with overflow checks
ParseUnderflow(in) == \E l \in 1..Len(in) : \E c \in 1..Len(in[l]) : in[l][c] < ByteZero

\* what a build can make of parse_grid(in): a Grid, or a panic
ParseOutcomes(in) ==
    {[ok |-> TRUE, grid |-> parse_grid(in)]}
        \cup (IF ParseUnderflow(in) THEN {[ok |-> FALSE, grid |-> parse_grid(in)]} ELSE {})

\* the index into dists of update_dists_and_queue and of the pop loop
DistIdx(g, x, y, dir) == (x * g.width + y) * 4 + dir

\* the state of the search: the heap, the distance array, and ok = no panic yet
InitSearch(g) ==
    [queue |-> {<<0, <<0, 0, START>>>>},
     dists |-> [i \in 1..(g.width * g.height * 4) |-> USIZE_MAX],
     ok    |-> TRUE]

\* mutant: the node is pushed but its distance is not stored
update_dists_and_queue_NoWrite(g, st, node, dist) ==
    LET idx == DistIdx(g, node[1], node[2], node[3]) IN
    IF ~st.ok THEN st
    ELSE IF idx >= Len(st.dists) THEN [st EXCEPT !.ok = FALSE]
    ELSE IF dist < st.dists[idx + 1]
         THEN [st EXCEPT !.queue = st.queue \cup {<<dist, node>>}]
         ELSE st

\* mutant: the distance is written and the node pushed without the comparison
update_dists_and_queue_Always(g, st, node, dist) ==
    LET idx == DistIdx(g, node[1], node[2], node[3]) IN
    IF ~st.ok THEN st
    ELSE IF idx >= Len(st.dists) THEN [st EXCEPT !.ok = FALSE]
    ELSE [st EXCEPT !.dists[idx + 1] = dist,
                    !.queue = st.queue \cup {<<dist, node>>}]

\* update_dists_and_queue
update_dists_and_queue(g, st, node, dist) ==
    LET idx == DistIdx(g, node[1], node[2], node[3]) IN
    IF ~st.ok THEN st
    ELSE IF idx >= Len(st.dists) THEN [st EXCEPT !.ok = FALSE]
    ELSE IF dist < st.dists[idx + 1]
         THEN [st EXCEPT !.dists[idx + 1] = dist,
                         !.queue = st.queue \cup {<<dist, node>>}]
         ELSE st

\* the tuple order of Node = (u8, u8, u8)
NodeLess(a, b) ==
    \/ a[1] < b[1]
    \/ a[1] = b[1] /\ a[2] < b[2]
    \/ a[1] = b[1] /\ a[2] = b[2] /\ a[3] < b[3]

\* mutant: the heap is not reversed: the entry of greatest dist is popped
HeapTop_Greatest(q) ==
    CHOOSE e \in q : \A f \in q :
        \/ e[1] > f[1]
        \/ e[1] = f[1] /\ (f[2] = e[2] \/ NodeLess(f[2], e[2]))

\* BinaryHeap::pop on (Reverse(dist), node): least dist, then greatest node
HeapTop(q) ==
    CHOOSE e \in q : \A f \in q :
        \/ e[1] < f[1]
        \/ e[1] = f[1] /\ (f[2] = e[2] \/ NodeLess(f[2], e[2]))

\* mutant: the sum starts at the second cell of the run
PrefixDist_SkipFirst(g, x, y, dx, dy, mn) ==
    SumTo([i \in 2..(mn - 1) |-> Get(g, x + i * dx, y + i * dy)], 2, mn - 1)

\* mutant: the sum starts at the cell the run leaves
PrefixDist_FromZero(g, x, y, dx, dy, mn) ==
    SumTo([i \in 0..(mn - 1) |-> Get(g, x + i * dx, y + i * dy)], 0, mn - 1)

\* (1..min_steps).map(|i| grid.get(..)).sum(): the cells before the first stop
PrefixDist(g, x, y, dx, dy, mn) ==
    SumTo([i \in 1..(mn - 1) |-> Get(g, x + i * dx, y + i * dy)], 1, mn - 1)

\* the cells a run of max_dir steps in direction (dx, dy) reads
RunCellsOk(g, x, y, dx, dy, max_dir) ==
    \A i \in 1..max_dir : CellOk(g, x + i * dx, y + i * dy)

\* the relaxations of one direction, in loop order: <<neighbor, neighbor_dist>>
DirEdges(g, x, y, dist, dir, dx, dy, max_dir, mn) ==
    [k \in 1..(max_dir - mn + 1) |->
        LET i == mn + k - 1 IN
        <<<<x + i * dx, y + i * dy, dir>>,
          dist + PrefixDist(g, x, y, dx, dy, mn)
               + SumTo([j \in mn..i |-> Get(g, x + j * dx, y + j * dy)], mn, i)>>]

\* mutant: the axis of arrival is not excluded
Moves_AnyAxis(g, x, y, dir, mn, mx) ==
    LET max_north == Min2(mx, y)
        max_south == Min2(mx, g.height - y - 1)
        max_east  == Min2(mx, g.width - x - 1)
        max_west  == Min2(mx, x)
    IN  (IF max_north >= mn THEN <<<<NORTH, 0, -1, max_north>>>> ELSE <<>>)
     \o (IF max_south >= mn THEN <<<<SOUTH, 0, 1, max_south>>>> ELSE <<>>)
     \o (IF max_east >= mn THEN <<<<EAST, 1, 0, max_east>>>> ELSE <<>>)
     \o (IF max_west >= mn THEN <<<<WEST, -1, 0, max_west>>>> ELSE <<>>)

\* the directions the loop body tries from (x, y, dir), in source order:
\* <<dir, dx, dy, max_dir>>
Moves(g, x, y, dir, mn, mx) ==
    LET was_horizontal == dir = EAST \/ dir = WEST
        was_vertical   == dir = NORTH \/ dir = SOUTH
        max_north == Min2(mx, y)
        max_south == Min2(mx, g.height - y - 1)
        max_east  == Min2(mx, g.width - x - 1)
        max_west  == Min2(mx, x)
    IN  (IF max_north >= mn /\ ~was_vertical THEN <<<<NORTH, 0, -1, max_north>>>> ELSE <<>>)
     \o (IF max_south >= mn /\ ~was_vertical THEN <<<<SOUTH, 0, 1, max_south>>>> ELSE <<>>)
     \o (IF max_east >= mn /\ ~was_horizontal THEN <<<<EAST, 1, 0, max_east>>>> ELSE <<>>)
     \o (IF max_west >= mn /\ ~was_horizontal THEN <<<<WEST, -1, 0, max_west>>>> ELSE <<>>)

\* every relaxation of one loop iteration, in source order
Edges(g, x, y, dir, dist, mn, mx) ==
    LET ms == Moves(g, x, y, dir, mn, mx) IN
    Flatten([m \in 1..Len(ms) |->
        DirEdges(g, x, y, dist, ms[m][1], ms[m][2], ms[m][3], ms[m][4], mn)])

EdgesOk(g, x, y, dir, mn, mx) ==
    LET ms == Moves(g, x, y, dir, mn, mx) IN
    \A m \in 1..Len(ms) : RunCellsOk(g, x, y, ms[m][2], ms[m][3], ms[m][4])

RECURSIVE RelaxAll(_, _, _)
RelaxAll(g, st, es) ==
    IF es = <<>> THEN st
    ELSE RelaxAll(g, update_dists_and_queue(g, st, Head(es)[1], Head(es)[2]), Tail(es))

\* the stale check left out: every popped entry is expanded
IsStale_Never(g, st, e) == FALSE

\* the popped entry is stale: `if dist > dists[dist_idx] { continue; }`
IsStale(g, st, e) == e[1] > st.dists[DistIdx(g, e[2][1], e[2][2], e[2][3]) + 1]

\* one iteration of `while let Some(..) = queue.pop()`
SearchStep(g, st, mn, mx) ==
    LET e    == HeapTop(st.queue)
        dist == e[1]
        x    == e[2][1]
        y    == e[2][2]
        dir  == e[2][3]
        popped == [st EXCEPT !.queue = st.queue \ {e}]
    IN  IF DistIdx(g, x, y, dir) >= Len(st.dists) THEN [popped EXCEPT !.ok = FALSE]
        ELSE IF IsStale(g, st, e) THEN popped
        ELSE IF ~EdgesOk(g, x, y, dir, mn, mx) THEN [popped EXCEPT !.ok = FALSE]
        ELSE RelaxAll(g, popped, Edges(g, x, y, dir, dist, mn, mx))

\* the four slots read for the end cell, without the unvisited ones
EndDists(g, ds) ==
    LET end_idx == ((g.height - 1) * g.width + (g.width - 1)) * 4 IN
    {ds[i + 1] : i \in end_idx..(end_idx + 3)} \ {USIZE_MAX}

\* the value returned, or the panic of unwrap() on None
Extract(g, ds) ==
    IF EndDists(g, ds) = {} THEN [ok |-> FALSE, value |-> 0]
    ELSE [ok |-> TRUE, value |-> SetMin(EndDists(g, ds))]

RECURSIVE RunSearch(_, _, _, _)
RunSearch(g, st, mn, mx) ==
    IF ~st.ok THEN [ok |-> FALSE, value |-> 0]
    ELSE IF st.queue = {} THEN Extract(g, st.dists)
    ELSE RunSearch(g, SearchStep(g, st, mn, mx), mn, mx)

\* min_heat_loss as a function of its arguments
min_heat_loss(g, mn, mx) == RunSearch(g, InitSearch(g), mn, mx)

EmptyGrid14 == [cells |-> <<>>, width |-> 0, height |-> 0]

\* --- the inputs of the model

EmptyGrid == [data |-> <<>>, width |-> 0, height |-> 0]

\* the text of a w x h grid whose cells cost 1, except those of heavy (0-based,
\* row-major cell numbers), which cost HeavyCost
GridText(w, h, heavy) ==
    [y \in 1..h |-> [x \in 1..w |->
        ByteZero + (IF (y - 1) * w + (x - 1) \in heavy THEN HeavyCost ELSE 1)]]

WellFormedInputs ==
    UNION {{GridText(w, h, heavy) :
                heavy \in {H \in SUBSET (0..(w * h - 1)) : Cardinality(H) <= MaxHeavy}} :
           w \in 1..MaxDim, h \in 1..MaxDim}

\* malformed texts: a byte that is no digit ('/' = 47, ':' = 58), or rows of
\* unequal length
MalformedInputs ==
    {<<<<49, b>>, <<49, 49>>>> : b \in {47, 58}}
        \cup {<<<<49, 49>>, <<49>>>>, <<<<49>>, <<49, 49>>>>, <<<<49, 49, 49>>, <<49>>>>}

Inputs17 == WellFormedInputs \cup MalformedInputs

\* rectangular, not empty, digits only
WellFormed(in) ==
    /\ in # <<>>
    /\ \A l \in 1..Len(in) : Len(in[l]) = Len(in[1]) /\ Len(in[l]) >= 1
    /\ \A l \in 1..Len(in) : \A c \in 1..Len(in[l]) : in[l][c] \in ByteZero..(ByteZero + 9)

\* --- the solver as a state machine

\* the variables of day 12 while another solver runs
Idle12 ==
    /\ part = 0
    /\ rows = <<>>
    /\ cache = <<>>
    /\ idx12 = 0
    /\ counts = <<>>
    /\ sum12 = 0
    /\ wrapped = FALSE

\* the variables of day 14 while another solver runs
Idle14 ==
    /\ start14 = EmptyGrid14
    /\ grid14 = EmptyGrid14
    /\ seen = <<>>
    /\ i14 = 0
    /\ target = 0

Init17 ==
    /\ pc = "parse"
    /\ input \in Inputs17
    /\ max_steps \in 1..MaxSteps
    /\ min_steps \in 1..max_steps
    /\ grid = EmptyGrid
    /\ queue = {}
    /\ dists = <<>>
    /\ expanded = <<>>
    /\ skipped = <<>>
    /\ result = 0
    /\ Idle14
    /\ Idle12
    /\ Idle6
    /\ Idle5
    /\ Idle23

\* part1 / part2: let grid = parse_grid(input)
Parse ==
    /\ pc = "parse"
    /\ \E o \in ParseOutcomes(input) :
        /\ pc' = IF o.ok THEN "start" ELSE "panic_overflow"
        /\ grid' = IF o.ok THEN o.grid ELSE grid
    /\ UNCHANGED <<input, min_steps, max_steps, queue, dists, expanded, skipped, result, vars14, vars12, vars6, vars5, vars23>>

\* min_heat_loss: the queue and the distance array are set up
StartSearch ==
    /\ pc = "start"
    /\ pc' = "search"
    /\ queue' = InitSearch(grid).queue
    /\ dists' = InitSearch(grid).dists
    /\ UNCHANGED <<input, grid, min_steps, max_steps, expanded, skipped, result, vars14, vars12, vars6, vars5, vars23>>

SearchState == [queue |-> queue, dists |-> dists, ok |-> TRUE]

\* the popped entry's slot exists: dists[dist_idx] does not panic
PopInBounds ==
    LET e == HeapTop(queue) IN DistIdx(grid, e[2][1], e[2][2], e[2][3]) < Len(dists)

\* the popped entry's slot exists and holds a smaller distance
TopIsStale ==
    LET e == HeapTop(queue) IN
    /\ DistIdx(grid, e[2][1], e[2][2], e[2][3]) < Len(dists)
    /\ IsStale(grid, SearchState, e)

\* a loop iteration that ends at `continue`
PopStale ==
    /\ pc = "search"
    /\ queue # {}
    /\ TopIsStale
    /\ LET st == SearchStep(grid, SearchState, min_steps, max_steps) IN
        /\ queue' = st.queue
        /\ dists' = st.dists
    /\ skipped' = Append(skipped, HeapTop(queue))
    /\ UNCHANGED <<pc, input, grid, min_steps, max_steps, expanded, result, vars14, vars12, vars6, vars5, vars23>>

\* a loop iteration that generates the edges of the popped vertex
PopExpand ==
    /\ pc = "search"
    /\ queue # {}
    /\ ~TopIsStale
    /\ LET st == SearchStep(grid, SearchState, min_steps, max_steps) IN
        /\ queue' = st.queue
        /\ dists' = st.dists
        /\ pc' = IF st.ok THEN "search" ELSE "panic_index"
    /\ expanded' = IF PopInBounds THEN Append(expanded, HeapTop(queue)) ELSE expanded
    /\ UNCHANGED <<input, grid, min_steps, max_steps, skipped, result, vars14, vars12, vars6, vars5, vars23>>

\* the loop has ended: the end cell's distance is extracted
Finish ==
    /\ pc = "search"
    /\ queue = {}
    /\ LET r == Extract(grid, dists) IN
        /\ pc' = IF r.ok THEN "done" ELSE "panic_unwrap"
        /\ result' = r.value
    /\ UNCHANGED <<input, grid, min_steps, max_steps, queue, dists, expanded, skipped, vars14, vars12, vars6, vars5, vars23>>

Next17 == Parse \/ StartSearch \/ PopStale \/ PopExpand \/ Finish

Spec17 == Init17 /\ [][Next17]_vars

\* min_heat_loss is sequential code that keeps running until it returns or
\* panics: while it parses, sets up or is in the loop, it takes its next step
\* (a step changes pc or pops an entry, which one of the histories records)
Progress17 ==
    /\ pc \in {"parse", "start", "search"}
    /\ pc' \in {"start", "search", "done", "panic_index", "panic_unwrap", "panic_overflow"}
    /\ expanded' \in {expanded} \cup {Append(expanded, e) : e \in queue}
    /\ skipped' \in {skipped} \cup {Append(skipped, e) : e \in queue}

Spec17Fair == Spec17 /\ WF_<<pc, expanded, skipped>>(Progress17)

\* --- the specification of the result: the cheapest valid path

Cost(in, x, y) == in[y + 1][x + 1] - ByteZero

\* the cost of entering the L cells after (x, y) in direction (dx, dy)
RunCost(in, x, y, dx, dy, L) ==
    SumTo([k \in 1..L |-> Cost(in, x + k * dx, y + k * dy)], 1, L)

\* keeps, for each vertex, the cheapest entry
Cheapest(S) == {p \in S : \A q \in S : q[1] = p[1] => p[2] <= q[2]}

Axes == {<<1, 0, "H">>, <<-1, 0, "H">>, <<0, 1, "V">>, <<0, -1, "V">>}

\* the paths of R (as <<end vertex, cost>>), each extended by one straight run of
\* mn..mx cells that stays in the grid, along the axis it did not arrive on
\* (a path with no run yet, at the start with axis "S", may take either)
Extend(in, R, mn, mx) ==
    LET w == Len(in[1])
        h == Len(in)
        cand == {c \in R \X (mn..mx) \X Axes :
                    /\ c[1][1][3] # c[3][3]
                    /\ c[1][1][1] + c[2] * c[3][1] \in 0..(w - 1)
                    /\ c[1][1][2] + c[2] * c[3][2] \in 0..(h - 1)}
    IN  {<<<<c[1][1][1] + c[2] * c[3][1], c[1][1][2] + c[2] * c[3][2], c[3][3]>>,
           c[1][2] + RunCost(in, c[1][1][1], c[1][1][2], c[3][1], c[3][2], c[2])>> :
            c \in cand}

RECURSIVE Closure(_, _, _, _)
\* the cheapest valid path to every vertex a valid path reaches
Closure(in, R, mn, mx) ==
    LET N == Cheapest(R \cup Extend(in, R, mn, mx)) IN
    IF N = R THEN R ELSE Closure(in, N, mn, mx)

\* the costs of the cheapest valid paths from (0,0) to (width-1, height-1),
\* one per axis of arrival; empty when no valid path exists
EndCosts(in, mn, mx) ==
    {p[2] : p \in {q \in Closure(in, {<<<<0, 0, "S">>, 0>>}, mn, mx) :
                        q[1][1] = Len(in[1]) - 1 /\ q[1][2] = Len(in) - 1}}

PathExists(in, mn, mx) == EndCosts(in, mn, mx) # {}

OptCost(in, mn, mx) == SetMin(EndCosts(in, mn, mx))

\* the ways a run ends: a value is returned, or the process panics (on an
\* index out of range, on unwrap() of None, on an arithmetic overflow)
Panics == {"panic_index", "panic_unwrap", "panic_overflow"}

Finished == pc \in {"done"} \cup Panics

\* a cell that is no digit, or rows of unequal length
Malformed(in) ==
    \/ \E l \in 1..Len(in) : \E c \in 1..Len(in[l]) : in[l][c] \notin ByteZero..(ByteZero + 9)
    \/ \E l \in 1..Len(in) : Len(in[l]) # Len(in[1])

\* C1: on every rectangular grid (square or not) with a valid path,
\* min_heat_loss returns exactly the cost of the cheapest valid path.
C1_ReturnsOptimum ==
    (Finished /\ WellFormed(input) /\ PathExists(input, min_steps, max_steps))
        => (pc = "done" /\ result = OptCost(input, min_steps, max_steps))

\* C6: when no valid path exists, min_heat_loss ends with a "no path" outcome:
\* neither a number nor a panic.
C6_NoPathIsReported ==
    (WellFormed(input) /\ ~PathExists(input, min_steps, max_steps))
        => pc \notin {"done"} \cup Panics

\* C7: a text with a non-digit cell or rows of unequal length never gets past
\* parse_grid: no Grid is built from it and no search starts.
C7_MalformedIsRejected ==
    Malformed(input) => (pc \in {"parse", "panic_overflow"} /\ grid = EmptyGrid)

\* C9: for a fixed grid and max_steps, a smaller min_steps never costs more:
\* if both searches return a cost, cost(m1) <= cost(m2) for m1 <= m2.
C9_MinStepsMonotone ==
    (pc = "done" /\ WellFormed(input))
        => \A m1 \in 1..min_steps :
              LET r == min_heat_loss(grid, m1, max_steps) IN
              r.ok => r.value <= result

C9_Witness ==
    /\ pc = "done"
    /\ WellFormed(input)
    /\ min_steps = 2
    /\ min_heat_loss(grid, 1, max_steps).ok
    /\ min_heat_loss(grid, 1, max_steps).value < result

\* the n x n grid in which every cell costs 1
IsUniform(in, n) == in = GridText(n, n, {})

\* C10: on the n x n grid of cost 1 (n >= 2), min_heat_loss(grid, 1, 1) returns
\* 2 * (n - 1).
C10_UniformManhattan ==
    \A n \in 2..MaxDim :
        (Finished /\ IsUniform(input, n) /\ min_steps = 1 /\ max_steps = 1)
            => (pc = "done" /\ result = 2 * (n - 1))

C10_Witness ==
    pc = "done" /\ IsUniform(input, 3) /\ min_steps = 1 /\ max_steps = 1 /\ result = 4

\* the vertices of the search on grid g: every cell with each of the four
\* directions, and the start vertex
Vertices(g) ==
    {<<x, y, dir>> : x \in 0..(g.width - 1), y \in 0..(g.height - 1),
                     dir \in {NORTH, SOUTH, EAST, WEST}}
        \cup {<<0, 0, START>>}

\* the slots of dists the end-cell extraction reads
EndSlots(g) ==
    LET end_idx == ((g.height - 1) * g.width + (g.width - 1)) * 4 IN
    end_idx..(end_idx + 3)

\* C17: every vertex, the start vertex included, has a slot of its own in
\* dists: the index (x*width + y)*4 + dir is in bounds and injective over the
\* vertices, and the four slots read for the end cell are the slots of the
\* vertices (width-1, height-1, dir).
C17_EveryVertexOwnSlot ==
    (pc \in {"start", "search", "done"} /\ WellFormed(input)) =>
        /\ \A v \in Vertices(grid) :
              DistIdx(grid, v[1], v[2], v[3]) < grid.width * grid.height * 4
        /\ \A v1, v2 \in Vertices(grid) :
              DistIdx(grid, v1[1], v1[2], v1[3]) = DistIdx(grid, v2[1], v2[2], v2[3])
                  => v1 = v2
        /\ EndSlots(grid) =
              {DistIdx(grid, grid.width - 1, grid.height - 1, dir) :
                  dir \in {NORTH, SOUTH, EAST, WEST}}

\* the position in dists (1-based) of the slot the code uses for node
Slot(node) == DistIdx(grid, node[1], node[2], node[3]) + 1

\* a step of the search leaves every entry of dists as it is or makes it smaller
DistsOnlyDecrease ==
    pc = "search" =>
        /\ Len(dists') = Len(dists)
        /\ \A k \in 1..Len(dists) : dists'[k] <= dists[k]

PopsNonDecreasing ==
    \A k \in 1..(Len(expanded) - 1) : expanded[k][1] <= expanded[k + 1][1]

\* the slot of an expanded entry still holds the distance it was expanded with
KeepsDist(e) == Slot(e[2]) <= Len(dists) /\ dists[Slot(e[2])] = e[1]

StaleTop ==
    /\ pc = "search"
    /\ queue # {}
    /\ LET e == HeapTop(queue) IN Slot(e[2]) <= Len(dists) /\ e[1] > dists[Slot(e[2])]

\* the iteration only removes the popped entry: nothing is relaxed or expanded
NoRelaxation ==
    /\ dists' = dists
    /\ queue' = queue \ {HeapTop(queue)}
    /\ expanded' = expanded

\* no vertex occurs twice among the entries popped and expanded
ExpandedAtMostOnce ==
    \A j, k \in 1..Len(expanded) : expanded[j][2] = expanded[k][2] => j = k

\* C20: popping an entry (d, v) with d > dists[v] generates no relaxations,
\* and every vertex is expanded at most once during a search.
C20_StaleNotExpanded ==
    /\ [][StaleTop => NoRelaxation]_vars
    /\ []ExpandedAtMostOnce

\* a search has ended in which a stale entry was skipped for a vertex that
\* was expanded with a smaller distance
C20_Witness ==
    /\ pc = "done"
    /\ \E k \in 1..Len(skipped) : \E j \in 1..Len(expanded) :
          /\ skipped[k][2] = expanded[j][2]
          /\ skipped[k][1] > expanded[j][1]

\* the directions perpendicular to dir, as <<direction, dx, dy>>; all four
\* for the start vertex
Perpendicular(dir) ==
    IF dir = START THEN {<<NORTH, 0, -1>>, <<SOUTH, 0, 1>>, <<EAST, 1, 0>>, <<WEST, -1, 0>>}
    ELSE IF dir \in {NORTH, SOUTH} THEN {<<EAST, 1, 0>>, <<WEST, -1, 0>>}
    ELSE {<<NORTH, 0, -1>>, <<SOUTH, 0, 1>>}

\* the relaxations the statement asks of the expansion of entry e, as
\* <<vertex, candidate distance>>: one for every straight run of k cells,
\* min_steps <= k <= max_steps, that ends inside the grid
StatedEdges(e) ==
    LET x == e[2][1]
        y == e[2][2]
        runs == {r \in Perpendicular(e[2][3]) \X (min_steps..max_steps) :
                    /\ x + r[2] * r[1][2] \in 0..(Len(input[1]) - 1)
                    /\ y + r[2] * r[1][3] \in 0..(Len(input) - 1)}
    IN  {<<<<x + r[2] * r[1][2], y + r[2] * r[1][3], r[1][1]>>,
           e[1] + RunCost(input, x, y, r[1][2], r[1][3], r[2])>> : r \in runs}

\* the relaxations the loop body issues for entry e
IssuedEdges(e) ==
    LET es == Edges(grid, e[2][1], e[2][2], e[2][3], e[1], min_steps, max_steps)
    IN  {es[k] : k \in 1..Len(es)}

C22_OneCellIsZero ==
    (Finished /\ WellFormed(input) /\ Len(input) = 1 /\ Len(input[1]) = 1)
        => (pc = "done" /\ result = 0)

\* every entry a step of the search adds to the queue has strictly lowered
\* the slot of its vertex to the entry's distance
PushLowers ==
    pc = "search" =>
        \A e \in queue' \ queue :
            /\ Slot(e[2]) <= Len(dists)
            /\ dists'[Slot(e[2])] = e[1]
            /\ e[1] < dists[Slot(e[2])]

\* the loop goes on while the queue holds an entry and is left, without a
\* panic, only when it holds none
EndsWhenEmpty ==
    pc = "search" =>
        /\ queue # {} => pc' \in {"search", "panic_index"}
        /\ pc' \in {"done", "panic_unwrap"} => queue = {}

-----------------------------------------------------------------------------
(* Day 14: rock sliding with cycle detection (src/src/day14.rs) *)

Empty == "."
Round == "O"
Square == "#"

\* the width of usize on the 64-bit targets the solvers are built for
USIZE_BITS == 64

\* Grid::get and Grid::set (their assertions hold for every call of slide)
GridGet(g, x, y) == g.cells[y * g.width + x + 1]

GridSet(g, x, y, cell) == [g EXCEPT !.cells[y * g.width + x + 1] = cell]

\* the cell at position j of line i, for each direction's `cell` closure,
\* as <<x, y>>
LinePos(g, dir, i, j) ==
    CASE dir = "North" -> <<i, j>>
      [] dir = "West"  -> <<j, i>>
      [] dir = "South" -> <<i, g.height - j - 1>>
      [] dir = "East"  -> <<g.width - j - 1, i>>

CellAt(g, dir, i, j) == GridGet(g, LinePos(g, dir, i, j)[1], LinePos(g, dir, i, j)[2])

RECURSIVE FillRun(_, _, _, _, _, _, _)
\* the two loops of a `slide` closure: positions start.. of line i get
\* rounds_in_run Round cells, then Empty cells up to position j
FillRun(g, dir, rounds_in_run, start_of_run, i, j, k) ==
    IF k >= j - start_of_run THEN g
    ELSE LET pos == LinePos(g, dir, i, start_of_run + k) IN
         FillRun(GridSet(g, pos[1], pos[2], IF k < rounds_in_run THEN Round ELSE Empty),
                 dir, rounds_in_run, start_of_run, i, j, k + 1)

\* mutant: the last cell of the run is left as it was
SlideRun_OneShort(g, dir, rounds_in_run, start_of_run, i, j) ==
    FillRun(g, dir, rounds_in_run, start_of_run, i, j - 1, 0)

SlideRun(g, dir, rounds_in_run, start_of_run, i, j) ==
    FillRun(g, dir, rounds_in_run, start_of_run, i, j, 0)

RECURSIVE ScanLine_StartAtSquare(_, _, _, _, _, _, _)
\* mutant: the run after a Square cell starts at the Square cell
ScanLine_StartAtSquare(g, dir, i, j, inner_len, start_of_run, rounds_in_run) ==
    IF j >= inner_len
    THEN IF rounds_in_run > 0 /\ rounds_in_run < inner_len - start_of_run
         THEN SlideRun(g, dir, rounds_in_run, start_of_run, i, inner_len)
         ELSE g
    ELSE LET cell == CellAt(g, dir, i, j) IN
         IF cell = Empty
         THEN ScanLine_StartAtSquare(g, dir, i, j + 1, inner_len, start_of_run, rounds_in_run)
         ELSE IF cell = Round
         THEN ScanLine_StartAtSquare(g, dir, i, j + 1, inner_len, start_of_run,
                                     rounds_in_run + 1)
         ELSE ScanLine_StartAtSquare(
                  IF rounds_in_run > 0 /\ rounds_in_run < j - start_of_run
                  THEN SlideRun(g, dir, rounds_in_run, start_of_run, i, j)
                  ELSE g,
                  dir, i, j + 1, inner_len, j, 0)

RECURSIVE ScanLine(_, _, _, _, _, _, _)
\* the inner loop of helper over j, and the flush after it
ScanLine(g, dir, i, j, inner_len, start_of_run, rounds_in_run) ==
    IF j >= inner_len
    THEN IF rounds_in_run > 0 /\ rounds_in_run < inner_len - start_of_run
         THEN SlideRun(g, dir, rounds_in_run, start_of_run, i, inner_len)
         ELSE g
    ELSE LET cell == CellAt(g, dir, i, j) IN
         IF cell = Empty THEN ScanLine(g, dir, i, j + 1, inner_len, start_of_run, rounds_in_run)
         ELSE IF cell = Round
         THEN ScanLine(g, dir, i, j + 1, inner_len, start_of_run, rounds_in_run + 1)
         ELSE ScanLine(IF rounds_in_run > 0 /\ rounds_in_run < j - start_of_run
                       THEN SlideRun(g, dir, rounds_in_run, start_of_run, i, j)
                       ELSE g,
                       dir, i, j + 1, inner_len, j + 1, 0)

RECURSIVE helper(_, _, _, _, _)
\* the outer loop of helper over i
helper(g, dir, i, outer_len, inner_len) ==
    IF i >= outer_len THEN g
    ELSE helper(ScanLine(g, dir, i, 0, inner_len, 0, 0), dir, i + 1, outer_len, inner_len)

slide(g, dir) ==
    IF dir \in {"North", "South"}
    THEN helper(g, dir, 0, g.width, g.height)
    ELSE helper(g, dir, 0, g.height, g.width)

spin_cycle(g) == slide(slide(slide(slide(g, "North"), "West"), "South"), "East")

RECURSIVE SpinTimes(_, _)
\* spin_cycle applied n times
SpinTimes(g, n) == IF n <= 0 THEN g ELSE SpinTimes(spin_cycle(g), n - 1)

\* the weight of a Round cell of row y
LoadOf(g, y) == g.height - y

total_load(g) ==
    SumTo([k \in 1..Len(g.cells) |->
              IF g.cells[k] = Round THEN LoadOf(g, (k - 1) \div g.width) ELSE 0],
          1, Len(g.cells))

RECURSIVE Pow2Mod(_, _)
\* 2^k mod m, by repeated squaring
Pow2Mod(k, m) ==
    IF k = 0 THEN 1 % m
    ELSE IF k % 2 = 0 THEN (Pow2Mod(k \div 2, m) * Pow2Mod(k \div 2, m)) % m
    ELSE (2 * Pow2Mod(k - 1, m)) % m

\* mutant: the cycle is taken one iteration too long
CycleLen_OffByOne(i, prev) == i - prev + 1

\* let cycle_len = i - prev
CycleLen(i, prev) == i - prev

\* mutant: the state is not recorded
seen_insert_Drop(m, g, i) == m

\* mutant: the state is recorded under the next iteration's index
seen_insert_Late(m, g, i) == (g :> i + 1) @@ m

\* seen.insert(grid.clone(), i)
seen_insert(m, g, i) == (g :> i) @@ m

\* (T - i) % cycle_len in usize arithmetic; when T < i the subtraction wraps
\* (a build without overflow checks)
Remaining(T, i, cycle_len) ==
    IF T >= i THEN (T - i) % cycle_len
    ELSE (Pow2Mod(USIZE_BITS, cycle_len) + T - i) % cycle_len

\* --- the inputs of the model

\* the w x h grid whose cells (1-based, row-major) in rocks are not Empty and
\* whose cells in squares are Square
GridOf14(w, h, rocks, squares) ==
    [cells |-> [k \in 1..(w * h) |->
                    IF k \notin rocks THEN Empty
                    ELSE IF k \in squares THEN Square ELSE Round],
     width |-> w, height |-> h]

\* --- part2 as a state machine

\* the variables of day 17 while another solver runs
Idle17 ==
    /\ input = <<>>
    /\ grid = EmptyGrid
    /\ min_steps = 0
    /\ max_steps = 0
    /\ queue = {}
    /\ dists = <<>>
    /\ expanded = <<>>
    /\ skipped = <<>>

\* let mut grid = parse_grid(input); let mut seen = AHashMap::from([(grid.clone(), 0)])
Init14 ==
    /\ pc = "loop"
    /\ \E w \in 1..MaxDim14, h \in 1..MaxDim14 :
         \E rocks \in {Q \in SUBSET (1..(w * h)) : Cardinality(Q) <= MaxRocks} :
            \E squares \in SUBSET rocks :
                start14 = GridOf14(w, h, rocks, squares)
    /\ grid14 = start14
    /\ seen = (start14 :> 0)
    /\ i14 = 1
    /\ target = 0
    /\ result = 0
    /\ Idle17
    /\ Idle12
    /\ Idle6
    /\ Idle5
    /\ Idle23

\* a loop iteration whose grid was not seen before
SpinNew ==
    /\ pc = "loop"
    /\ LET g == spin_cycle(grid14) IN
        /\ g \notin DOMAIN seen
        /\ grid14' = g
        /\ seen' = seen_insert(seen, g, i14)
    /\ i14' = i14 + 1
    /\ UNCHANGED <<pc, result, start14, target, vars17, vars12, vars6, vars5, vars23>>

\* a loop iteration whose grid was seen before: the remaining spin cycles are
\* replayed and the loop ends.  T stands for the constant 1_000_000_000; when
\* i exceeds it the subtraction overflows: a panic or a wrapped value
SpinSeen ==
    /\ pc = "loop"
    /\ LET g == spin_cycle(grid14) IN
        /\ g \in DOMAIN seen
        /\ \E T \in 0..MaxTarget : \E checked \in (IF T < i14 THEN BOOLEAN ELSE {FALSE}) :
            /\ target' = T
            /\ pc' = IF checked THEN "panic_overflow" ELSE "load"
            /\ grid14' = IF checked THEN g
                         ELSE SpinTimes(g, Remaining(T, i14, CycleLen(i14, seen[g])))
    /\ UNCHANGED <<result, start14, seen, i14, vars17, vars12, vars6, vars5, vars23>>

\* total_load(&grid).to_string()
Load ==
    /\ pc = "load"
    /\ result' = total_load(grid14)
    /\ pc' = "done"
    /\ UNCHANGED <<vars14, vars17, vars12, vars6, vars5, vars23>>

Next14 == SpinNew \/ SpinSeen \/ Load

Spec14 == Init14 /\ [][Next14]_vars

\* part2 is sequential code that keeps running until it returns or panics:
\* while it is in the loop or about to compute the load, it takes its next step
Progress14 ==
    /\ pc \in {"loop", "load"}
    /\ pc' \in {"loop", "load", "done", "panic_overflow"}
    /\ i14' \in {i14, i14 + 1}

Spec14Fair == Spec14 /\ WF_<<pc, i14>>(Progress14)

\* C3: for a target T >= the index of the first repeated state, part2 returns
\* the total load of the grid after T literal spin cycles.
C3_LoadAfterTarget ==
    (pc = "done" /\ target >= i14) => result = total_load(SpinTimes(start14, target))

\* the replay did some work and the cycle is longer than one spin
C3_Witness ==
    /\ pc = "done"
    /\ target > i14
    /\ result = total_load(SpinTimes(start14, target))
    /\ i14 - seen[SpinTimes(start14, i14)] >= 2
    /\ (target - i14) % (i14 - seen[SpinTimes(start14, i14)]) # 0

\* C4: seen maps every grid state it holds to the first iteration at which
\* that state occurred; and once the state after iteration i is found with
\* index p, the replayed grid is the state of iteration p + ((T - p) mod (i - p)).
C4_SeenAndPhase ==
    /\ pc \in {"loop", "load", "done"} =>
        \A g \in DOMAIN seen :
            /\ SpinTimes(start14, seen[g]) = g
            /\ \A k \in 0..(seen[g] - 1) : SpinTimes(start14, k) # g
    /\ (pc \in {"load", "done"} /\ target >= i14) =>
        LET p == seen[SpinTimes(start14, i14)] IN
        grid14 = SpinTimes(start14, p + ((target - p) % (i14 - p)))

C4_Witness ==
    /\ pc = "load"
    /\ target > i14
    /\ seen[SpinTimes(start14, i14)] >= 1
    /\ i14 - seen[SpinTimes(start14, i14)] >= 2
    /\ grid14 # SpinTimes(start14, i14)
    /\ grid14 = SpinTimes(start14, seen[SpinTimes(start14, i14)]
                    + ((target - seen[SpinTimes(start14, i14)])
                         % (i14 - seen[SpinTimes(start14, i14)])))

\* the cells next to (x, y) inside the grid
Neighbours(g, x, y) ==
    {p \in {<<x, y - 1>>, <<x - 1, y>>, <<x, y + 1>>, <<x + 1, y>>} :
        p[1] \in 0..(g.width - 1) /\ p[2] \in 0..(g.height - 1)}

\* fully settled: no Round cell has an Empty cell next to it
Settled(g) ==
    \A x \in 0..(g.width - 1), y \in 0..(g.height - 1) :
        GridGet(g, x, y) = Round
            => \A p \in Neighbours(g, x, y) : GridGet(g, p[1], p[2]) # Empty

\* C15: spin_cycle leaves every cell of a fully settled grid unchanged; part2
\* started on such a grid therefore ends on it.
C15_SettledIsFixed ==
    /\ Settled(grid14) => spin_cycle(grid14) = grid14
    /\ (Settled(start14) /\ pc \in {"load", "done"}) => grid14 = start14

\* a settled grid with Round and Empty cells went through a spin cycle
C15_Witness ==
    /\ pc = "load"
    /\ Settled(start14)
    /\ start14.width >= 2
    /\ start14.height >= 2
    /\ \E k \in 1..Len(start14.cells) : start14.cells[k] = Round
    /\ \E k \in 1..Len(start14.cells) : start14.cells[k] = Empty
    /\ grid14 = start14

RECURSIVE Orbit(_, _)
\* the grid states reachable from g by spin cycles, g included
Orbit(g, acc) == IF g \in acc THEN acc ELSE Orbit(spin_cycle(g), acc \cup {g})

OrbitSize(g) == Cardinality(Orbit(g, {}))

\* C16: the cycle-detection loop terminates: the iteration index never exceeds
\* the number of distinct grid states reachable from the start grid, and the
\* loop is eventually left.
C16_LoopTerminates ==
    /\ [](i14 <= OrbitSize(start14))
    /\ <>(pc # "loop")

\* the loop ran for several iterations and ended at the bound
C16_Witness ==
    /\ pc = "load"
    /\ i14 >= 4
    /\ i14 = OrbitSize(start14)

Dirs14 == {"North", "West", "South", "East"}

\* the number of lines slide scans in direction dir, and their length
OuterLen(g, dir) == IF dir \in {"North", "South"} THEN g.width ELSE g.height

InnerLen(g, dir) == IF dir \in {"North", "South"} THEN g.height ELSE g.width

\* the first position of the segment of line i that holds position j: the one
\* after the last Square cell before j, or 0
SegStart(g, dir, i, j) ==
    LET sq == {k \in 0..(j - 1) : CellAt(g, dir, i, k) = Square}
    IN  IF sq = {} THEN 0 ELSE (CHOOSE k \in sq : \A m \in sq : m <= k) + 1

\* the position after the segment: the first Square cell after j, or the end
SegEnd(g, dir, i, j) ==
    LET sq == {k \in (j + 1)..(InnerLen(g, dir) - 1) : CellAt(g, dir, i, k) = Square}
    IN  IF sq = {} THEN InnerLen(g, dir) ELSE CHOOSE k \in sq : \A m \in sq : k <= m

RoundsIn(g, dir, i, a, b) ==
    Cardinality({k \in a..(b - 1) : CellAt(g, dir, i, k) = Round})

\* line i of g2 is line i of g with every segment settled: Square cells where
\* they were, and in each segment as many Round cells as before, at its start
LineSettles(g, g2, dir, i) ==
    \A j \in 0..(InnerLen(g, dir) - 1) :
        IF CellAt(g, dir, i, j) = Square THEN CellAt(g2, dir, i, j) = Square
        ELSE LET a == SegStart(g, dir, i, j)
                 n == RoundsIn(g, dir, i, a, SegEnd(g, dir, i, j))
             IN  CellAt(g2, dir, i, j) = (IF j - a < n THEN Round ELSE Empty)

\* the pass over line i changes no cell of another line
OnlyLine(g, dir, i) ==
    LET g1 == ScanLine(g, dir, i, 0, InnerLen(g, dir), 0, 0) IN
    /\ g1.width = g.width /\ g1.height = g.height /\ Len(g1.cells) = Len(g.cells)
    /\ \A i2 \in (0..(OuterLen(g, dir) - 1)) \ {i} : \A j \in 0..(InnerLen(g, dir) - 1) :
          CellAt(g1, dir, i2, j) = CellAt(g, dir, i2, j)

SlideSettles(g, dir) ==
    /\ \A i \in 0..(OuterLen(g, dir) - 1) : LineSettles(g, slide(g, dir), dir, i)
    /\ \A i \in 0..(OuterLen(g, dir) - 1) : OnlyLine(g, dir, i)

\* C24: after slide(grid, dir), in every scanned line and every maximal segment
\* between Square cells or grid edges, the Square cells are where they were,
\* the number of Round cells is unchanged and they fill the start of the
\* segment in the direction of travel, with Empty cells after them; the pass
\* over one line changes no cell of another line.
C24_SlideSettlesSegments ==
    \A dir \in Dirs14 : SlideSettles(grid14, dir)

\* after a spin cycle a column holds a Square cell, an Empty cell and a Round
\* cell from north to south, and slide north moves the Round cell up to the
\* Square cell
C24_Witness ==
    /\ pc = "loop"
    /\ i14 >= 2
    /\ grid14.height = 3
    /\ \E x \in 0..(grid14.width - 1) :
          /\ GridGet(grid14, x, 0) = Square
          /\ GridGet(grid14, x, 1) = Empty
          /\ GridGet(grid14, x, 2) = Round
          /\ GridGet(slide(grid14, "North"), x, 1) = Round
          /\ GridGet(slide(grid14, "North"), x, 2) = Empty

-----------------------------------------------------------------------------
(* Day 12: memoized arrangement counting (src/src/day12.rs) *)

Working == "."
Broken == "#"
Unknown == "?"

\* usize::MAX of the scaled-down accumulator
AccMax == 2 ^ AccBits - 1

\* a sum in usize arithmetic without overflow checks
Wrap(n) == n % (AccMax + 1)

\* what rec and rec_inner return: the count, the cache afterwards, and ovf =
\* some addition on the way exceeded usize::MAX
Ret(n, c, ovf) == [n |-> n, cache |-> c, ovf |-> ovf]

\* mutant: a Working spring among the n springs is not noticed
munch_not_working_AllowWorking(springs, n) ==
    IF Len(springs) < n THEN [some |-> FALSE, rest |-> <<>>]
    ELSE [some |-> TRUE, rest |-> SubSeq(springs, n + 1, Len(springs))]

\* mutant: a slice of exactly n springs is refused
munch_not_working_Short(springs, n) ==
    IF Len(springs) <= n THEN [some |-> FALSE, rest |-> <<>>]
    ELSE IF \E k \in 1..n : springs[k] = Working THEN [some |-> FALSE, rest |-> <<>>]
    ELSE [some |-> TRUE, rest |-> SubSeq(springs, n + 1, Len(springs))]

\* munch_not_working: None, or Some(rest)
munch_not_working(springs, n) ==
    IF Len(springs) < n THEN [some |-> FALSE, rest |-> <<>>]
    ELSE IF \E k \in 1..n : springs[k] = Working THEN [some |-> FALSE, rest |-> <<>>]
    ELSE [some |-> TRUE, rest |-> SubSeq(springs, n + 1, Len(springs))]

RECURSIVE StripWorking(_)
\* the loop that drops the leading working springs
StripWorking(springs) ==
    IF springs # <<>> /\ Head(springs) = Working THEN StripWorking(Tail(springs))
    ELSE springs

\* mutant: two separators are asked for after every block
NeededLen_TwoSeparators(blocks) == SumTo(blocks, 1, Len(blocks)) + 2 * Len(blocks)

\* mutant: one spring too many is asked for
NeededLen_OffByOne(blocks) == SumTo(blocks, 1, Len(blocks)) + Len(blocks) + 1

\* blocks.iter().sum::<usize>() + blocks.len(), before wrapping
NeededLen(blocks) == SumTo(blocks, 1, Len(blocks)) + Len(blocks)

\* mutant: the spring after a block is not skipped
SkipSeparator_Keep(rest) == rest

\* `[_, rest @ ..] => rest`: the spring after a block cannot be broken and is skipped
SkipSeparator(rest) == Tail(rest)

RECURSIVE rec(_, _, _)
RECURSIVE rec_inner(_, _, _)
RECURSIVE after_block(_, _, _)

\* mutant: a Broken spring right after the block is taken for the separator
after_block_IgnoreBroken(rest, blocks, c) ==
    IF rest = <<>> THEN Ret(IF Tail(blocks) = <<>> THEN 1 ELSE 0, c, FALSE)
    ELSE rec(SkipSeparator(rest), Tail(blocks), c)

\* the `match rest` after the first block has been munched: the count of the
\* arrangements in which the block ends right before rest
after_block(rest, blocks, c) ==
    IF rest = <<>> THEN Ret(IF Tail(blocks) = <<>> THEN 1 ELSE 0, c, FALSE)
    ELSE IF Head(rest) = Broken THEN Ret(0, c, FALSE)
    ELSE rec(SkipSeparator(rest), Tail(blocks), c)

\* mutant: the cache is looked up by the springs alone
rec_KeyBySprings(springs, blocks, c) ==
    IF \E key \in DOMAIN c : key[1] = springs
    THEN Ret(c[CHOOSE key \in DOMAIN c : key[1] = springs], c, FALSE)
    ELSE LET r == rec_inner(springs, blocks, c) IN
         Ret(r.n, (<<springs, blocks>> :> r.n) @@ r.cache, r.ovf)

\* rec: the cache is looked up first, and filled after a miss
rec(springs, blocks, c) ==
    IF <<springs, blocks>> \in DOMAIN c THEN Ret(c[<<springs, blocks>>], c, FALSE)
    ELSE LET r == rec_inner(springs, blocks, c) IN
         Ret(r.n, (<<springs, blocks>> :> r.n) @@ r.cache, r.ovf)

rec_inner(springs0, blocks, c) ==
    LET springs == StripWorking(springs0)
        sizeOvf == Len(springs0) + 1 > AccMax \/ NeededLen(blocks) > AccMax
    IN
    IF Wrap(Len(springs0) + 1) < Wrap(NeededLen(blocks)) THEN Ret(0, c, sizeOvf)
    ELSE IF springs = <<>> THEN Ret(IF blocks = <<>> THEN 1 ELSE 0, c, sizeOvf)
    ELSE IF blocks = <<>>
    THEN Ret(IF \A k \in 1..Len(springs) : springs[k] # Broken THEN 1 ELSE 0, c, sizeOvf)
    ELSE LET head == Head(springs)
             rest == Tail(springs)
         IN
         IF head = Broken
         THEN LET m == munch_not_working(rest, blocks[1] - 1) IN
              IF ~m.some THEN Ret(0, c, sizeOvf)
              ELSE LET r == after_block(m.rest, blocks, c) IN
                   Ret(r.n, r.cache, r.ovf \/ sizeOvf)
         ELSE LET w == rec(rest, blocks, c)
                  m == IF blocks[1] = 1 THEN [some |-> TRUE, rest |-> rest]
                       ELSE munch_not_working(rest, blocks[1] - 1)
              IN
              IF ~m.some THEN Ret(w.n, w.cache, w.ovf \/ sizeOvf)
              ELSE IF m.rest # <<>> /\ Head(m.rest) = Broken
              THEN Ret(w.n, w.cache, w.ovf \/ sizeOvf)
              ELSE LET b == after_block(m.rest, blocks, w.cache) IN
                   Ret(Wrap(w.n + b.n), b.cache,
                       w.ovf \/ b.ovf \/ sizeOvf \/ w.n + b.n > AccMax)

count_arrangements(row, c) == rec(row.springs, row.blocks, c)

RECURSIVE rec_plain(_, _)
\* rec_inner with every call of rec replaced by the recursion itself: the
\* count computed without a cache, in the same usize arithmetic
rec_plain(springs0, blocks) ==
    LET springs == StripWorking(springs0) IN
    IF Wrap(Len(springs0) + 1) < Wrap(NeededLen(blocks)) THEN 0
    ELSE IF springs = <<>> THEN (IF blocks = <<>> THEN 1 ELSE 0)
    ELSE IF blocks = <<>>
    THEN (IF \A k \in 1..Len(springs) : springs[k] # Broken THEN 1 ELSE 0)
    ELSE LET head == Head(springs)
             rest == Tail(springs)
             m == IF head = Unknown /\ blocks[1] = 1 THEN [some |-> TRUE, rest |-> rest]
                  ELSE munch_not_working(rest, blocks[1] - 1)
             if_broken ==
                IF ~m.some THEN 0
                ELSE IF m.rest = <<>> THEN (IF Tail(blocks) = <<>> THEN 1 ELSE 0)
                ELSE IF Head(m.rest) = Broken THEN 0
                ELSE rec_plain(SkipSeparator(m.rest), Tail(blocks))
         IN  IF head = Broken THEN if_broken
             ELSE Wrap(rec_plain(rest, blocks) + if_broken)

\* mutant: the last copy takes the separator with it
expand_TrailingSeparator(row) ==
    LET n  == Len(row.springs)
        s1 == Append(row.springs, Unknown)
        s2 == s1 \o s1
        s3 == s2 \o s2
    IN  [springs |-> s3 \o SubSeq(s3, 1, n + 1),
         blocks  |-> row.blocks \o row.blocks \o row.blocks \o row.blocks \o row.blocks]

\* the rewrite of one row by part2
expand(row) ==
    LET n  == Len(row.springs)
        s1 == Append(row.springs, Unknown)
        s2 == s1 \o s1
        s3 == s2 \o s2
    IN  [springs |-> s3 \o SubSeq(s3, 1, n),
         blocks  |-> row.blocks \o row.blocks \o row.blocks \o row.blocks \o row.blocks]

\* --- the inputs of the model

Springs(n) == [1..n -> {Working, Broken, Unknown}]

BlockLists == UNION {[1..k -> 1..MaxRun] : k \in 1..MaxRuns}

RowsUpTo(len) ==
    {[springs |-> s, blocks |-> b] : s \in UNION {Springs(n) : n \in 0..len}, b \in BlockLists}

\* `????? 1,1` and `#.#.### 1,1,3`
Row5Unknown == [springs |-> <<"?", "?", "?", "?", "?">>, blocks |-> <<1, 1>>]
RowDetermined == [springs |-> <<"#", ".", "#", ".", "#", "#", "#">>, blocks |-> <<1, 1, 3>>]
Row2Unknown == [springs |-> <<"?", "?">>, blocks |-> <<1>>]
\* `?#? 2`: 2 arrangements, and 2^5 = 32 after the rewrite of part2
Row32 == [springs |-> <<"?", "#", "?">>, blocks |-> <<2>>]

\* n Unknown springs and the one block n
AllUnknown(n) == [springs |-> [k \in 1..n |-> Unknown], blocks |-> <<n>>]

\* the lists of rows part1 is run on
Inputs12Part1 ==
    {<<r>> : r \in RowsUpTo(MaxLen) \cup {Row5Unknown, RowDetermined}}
        \cup {<<AllUnknown(n)>> : n \in 1..MaxUnknown}
        \cup {<<r, a>> : r \in RowsUpTo(MaxLen2), a \in {Row5Unknown, Row2Unknown}}
        \cup {<<a, r>> : r \in RowsUpTo(MaxLen2), a \in {Row5Unknown, Row2Unknown}}
        \cup {<<Row5Unknown, RowDetermined>>}

\* the lists of rows part2 is run on
Inputs12Part2 ==
    {<<r>> : r \in RowsUpTo(MaxLen2)} \cup {<<Row2Unknown, Row2Unknown>>, <<Row32>>}

\* --- part1 and part2 as a state machine

Init12 ==
    /\ part \in {1, 2}
    /\ rows \in (IF part = 1 THEN Inputs12Part1 ELSE Inputs12Part2)
    /\ pc = IF part = 1 THEN "count" ELSE "expand"
    /\ cache = <<>>
    /\ idx12 = 1
    /\ counts = <<>>
    /\ sum12 = 0
    /\ wrapped = FALSE
    /\ result = 0
    /\ Idle17
    /\ Idle14
    /\ Idle6
    /\ Idle5
    /\ Idle23

\* part2: every row is rewritten to five copies
Expand ==
    /\ pc = "expand"
    /\ rows' = [k \in 1..Len(rows) |-> expand(rows[k])]
    /\ pc' = "count"
    /\ UNCHANGED <<part, cache, idx12, counts, sum12, wrapped, result, vars17, vars14, vars6, vars5, vars23>>

\* the iterator yields one row: count_arrangements(row, &mut cache) is added to
\* the sum.  An addition that exceeds usize::MAX panics in a build with overflow
\* checks and wraps in a build without
CountRow ==
    /\ pc = "count"
    /\ idx12 <= Len(rows)
    /\ LET r == count_arrangements(rows[idx12], cache)
           ovf == r.ovf \/ sum12 + r.n > AccMax
       IN  \E checked \in (IF ovf /\ ~wrapped THEN BOOLEAN ELSE {FALSE}) :
            /\ pc' = IF checked THEN "panic_overflow" ELSE "count"
            /\ cache' = IF checked THEN cache ELSE r.cache
            /\ counts' = IF checked THEN counts ELSE Append(counts, r.n)
            /\ sum12' = IF checked THEN sum12 ELSE Wrap(sum12 + r.n)
            /\ idx12' = IF checked THEN idx12 ELSE idx12 + 1
            /\ wrapped' = (wrapped \/ (ovf /\ ~checked))
    /\ UNCHANGED <<part, rows, result, vars17, vars14, vars6, vars5, vars23>>

\* .sum::<usize>().to_string()
Finish12 ==
    /\ pc = "count"
    /\ idx12 > Len(rows)
    /\ result' = sum12
    /\ pc' = "done"
    /\ UNCHANGED <<vars12, vars17, vars14, vars6, vars5, vars23>>

Next12 == Expand \/ CountRow \/ Finish12

Spec12 == Init12 /\ [][Next12]_vars

\* --- the specification of the count

\* the lengths of the maximal runs of Broken springs of a row without Unknown
RECURSIVE RunsOf(_, _)
RunsOf(springs, run) ==
    IF springs = <<>> THEN (IF run > 0 THEN <<run>> ELSE <<>>)
    ELSE IF Head(springs) = Broken THEN RunsOf(Tail(springs), run + 1)
    ELSE (IF run > 0 THEN <<run>> ELSE <<>>) \o RunsOf(Tail(springs), 0)

\* the number of ways to resolve the Unknown springs so that the runs of
\* Broken springs are exactly blocks, by enumeration
BruteForce(row) ==
    Cardinality({a \in [1..Len(row.springs) -> {Working, Broken}] :
        /\ \A k \in 1..Len(row.springs) :
              row.springs[k] # Unknown => a[k] = row.springs[k]
        /\ RunsOf(a, 0) = row.blocks})

RECURSIVE Placements(_, _)
\* the same number, by the position of the first run: the springs before it
\* are not Broken, its springs are not Working, the spring after it is not Broken
Placements(springs, blocks) ==
    IF blocks = <<>> THEN (IF \A k \in 1..Len(springs) : springs[k] # Broken THEN 1 ELSE 0)
    ELSE LET b == blocks[1]
             starts == {p \in 1..(Len(springs) - b + 1) :
                          /\ \A k \in 1..(p - 1) : springs[k] # Broken
                          /\ \A k \in p..(p + b - 1) : springs[k] # Working
                          /\ p + b <= Len(springs) => springs[p + b] # Broken}
             f == [p \in starts |->
                     Placements(SubSeq(springs, p + b + 1, Len(springs)), Tail(blocks))]
         IN  IF starts = {} THEN 0
             ELSE SumTo([k \in 1..Len(springs) |-> IF k \in starts THEN f[k] ELSE 0],
                        1, Len(springs))

\* C2: count_arrangements returns the number of assignments of the Unknown
\* springs whose runs of Broken springs are exactly the blocks, as found by
\* enumerating every assignment.
C2_EqualsBruteForce ==
    part = 1 => \A k \in 1..Len(counts) : counts[k] = BruteForce(rows[k])

C2_Witness ==
    /\ part = 1
    /\ Len(counts) = 1
    /\ Len(rows[1].springs) = MaxLen
    /\ counts[1] >= 3
    /\ counts[1] = BruteForce(rows[1])

\* C5 as stated: `????? 1,1` counts exactly 2 arrangements.
C5_FiveUnknownIsTwo ==
    \A k \in 1..Len(counts) : (part = 1 /\ rows[k] = Row5Unknown) => counts[k] = 2

\* C5 amended: `????? 1,1` counts exactly 6 arrangements.
C5_FiveUnknownIsSix ==
    \A k \in 1..Len(counts) : (part = 1 /\ rows[k] = Row5Unknown) => counts[k] = 6

C5_Witness ==
    part = 1 /\ Len(counts) >= 1 /\ rows[1] = Row5Unknown /\ counts[1] = 6

\* C11: for every n >= 1 the row of n Unknown springs with the one block n
\* counts exactly 1 arrangement.
C11_AllUnknownOneRun ==
    \A k \in 1..Len(counts) :
        \A n \in 1..MaxUnknown : rows[k] = AllUnknown(n) => counts[k] = 1

C11_Witness ==
    /\ Len(counts) = 1
    /\ rows[1] = AllUnknown(MaxUnknown)
    /\ counts[1] = 1

\* no spring of the row is Unknown
NoUnknown(row) == \A j \in 1..Len(row.springs) : row.springs[j] # Unknown

\* C13: a row without Unknown springs counts 1 if its maximal runs of Broken
\* springs are the blocks in order and 0 otherwise; `#.#.### 1,1,3` counts 1.
C13_DeterminedRow ==
    \A k \in 1..Len(counts) :
        /\ NoUnknown(rows[k])
              => counts[k] = (IF RunsOf(rows[k].springs, 0) = rows[k].blocks THEN 1 ELSE 0)
        /\ rows[k] = RowDetermined => counts[k] = 1

C13_Witness ==
    /\ Len(counts) = 1
    /\ rows[1] = RowDetermined
    /\ counts[1] = 1

\* C14: memoization is transparent: every cache entry holds the value of the
\* recursion without a cache, and every row's count with the cache shared
\* across the rows is its count with a fresh cache.
C14_MemoTransparent ==
    /\ \A key \in DOMAIN cache : cache[key] = rec_plain(key[1], key[2])
    /\ \A k \in 1..Len(counts) : counts[k] = count_arrangements(rows[k], <<>>).n

\* the second row was answered from the cache the first row filled
C14_Witness ==
    /\ part = 1
    /\ Len(counts) = 2
    /\ rows[1] = Row5Unknown
    /\ rows[2] # rows[1]
    /\ <<rows[2].springs, rows[2].blocks>> \in DOMAIN count_arrangements(rows[1], <<>>).cache
    /\ counts[2] > 0
    /\ counts[2] = rec_plain(rows[2].springs, rows[2].blocks)

\* the pruning test of rec_inner makes it return 0 for (springs, blocks)
PruneFires(springs, blocks) == Wrap(Len(springs) + 1) < Wrap(NeededLen(blocks))

\* C25: the pruning test is sound: whenever it makes rec_inner return 0 for
\* (springs, blocks), no arrangement of springs has the runs blocks; and it
\* never fires when blocks is empty.
C25_PruningIsSound ==
    part = 1 =>
        \A key \in DOMAIN cache :
            /\ PruneFires(key[1], key[2])
                  => /\ cache[key] = 0
                     /\ BruteForce([springs |-> key[1], blocks |-> key[2]]) = 0
            /\ key[2] = <<>> => ~PruneFires(key[1], key[2])

\* the recursion over a row that has arrangements pruned a subproblem with
\* springs left, and met a subproblem without blocks
C25_Witness ==
    /\ part = 1
    /\ Len(counts) = 1
    /\ counts[1] >= 2
    /\ \E key \in DOMAIN cache : PruneFires(key[1], key[2]) /\ Len(key[1]) >= 2
    /\ \E key \in DOMAIN cache : key[2] = <<>> /\ key[1] # <<>>

\* what the statement gives for springs s that start with a Broken spring and
\* a non-empty block list: 0 if fewer than blocks[1] springs remain, if one of
\* the first blocks[1] springs is Working or if the spring after them is
\* Broken; the count for the springs after the run and its separator and the
\* other blocks otherwise, or 1 or 0 when the run ends with the springs
BrokenHeadCount(s, blocks) ==
    LET n == blocks[1] IN
    IF Len(s) < n THEN 0
    ELSE IF \E k \in 1..n : s[k] = Working THEN 0
    ELSE IF Len(s) = n THEN (IF Tail(blocks) = <<>> THEN 1 ELSE 0)
    ELSE IF s[n + 1] = Broken THEN 0
    ELSE rec_plain(SubSeq(s, n + 2, Len(s)), Tail(blocks))

\* the springs of the subproblem start, after the Working springs, with a
\* Broken spring, and there is a block
BrokenHead(key) ==
    /\ key[2] # <<>>
    /\ StripWorking(key[1]) # <<>>
    /\ Head(StripWorking(key[1])) = Broken

\* C26: when the first spring after the leading Working springs is Broken and
\* there is a block, rec_inner returns 0 if the block does not fit, is
\* interrupted by a Working spring or is followed by a Broken spring, and
\* otherwise the count for the springs after the block and its separator with
\* the remaining blocks (1 or 0 when the block ends with the springs).
C26_BrokenHeadTakesBlock ==
    \A key \in DOMAIN cache :
        BrokenHead(key) => cache[key] = BrokenHeadCount(StripWorking(key[1]), key[2])

\* a subproblem that starts with a Broken spring was answered by the count, 2
\* or more, of the springs after its first block and separator
C26_Witness ==
    /\ part = 1
    /\ \E key \in DOMAIN cache :
          /\ BrokenHead(key)
          /\ cache[key] >= 2
          /\ cache[key] = rec_plain(SubSeq(key[1], key[2][1] + 2, Len(key[1])), Tail(key[2]))

\* row2 is five copies of the springs of row with one Unknown spring between
\* two copies, and the blocks of row five times over
FiveCopies(row, row2) ==
    LET n == Len(row.springs)
        k == Len(row.blocks)
    IN  /\ Len(row2.springs) = 5 * n + 4
        /\ \A p \in 1..(5 * n + 4) :
              row2.springs[p] = (IF p % (n + 1) = 0 THEN Unknown
                                 ELSE row.springs[p % (n + 1)])
        /\ Len(row2.blocks) = 5 * k
        /\ \A j \in 1..(5 * k) : row2.blocks[j] = row.blocks[((j - 1) % k) + 1]

\* the step of part2 that rewrites the rows rewrites each to five copies
ExpandStep ==
    pc = "expand" =>
        /\ Len(rows') = Len(rows)
        /\ \A k \in 1..Len(rows) : FiveCopies(rows[k], rows'[k])

\* C27: part2 rewrites every parsed row of n springs and k blocks to 5n + 4
\* springs, five copies of the springs separated by single Unknown springs
\* with none before or after, and to 5k blocks, the block list five times.
C27_FiveCopies == [][ExpandStep]_vars

\* a row of two different springs and two different blocks has been rewritten
C27_Witness ==
    /\ part = 2
    /\ pc = "count"
    /\ Len(rows[1].springs) = 14
    /\ rows[1].springs[1] = Broken
    /\ rows[1].springs[2] = Working
    /\ rows[1].springs[13] = Broken
    /\ Len(rows[1].blocks) = 10
    /\ rows[1].blocks[1] # rows[1].blocks[2]

\* the row that part2 rewrote to row
Unexpand(row) ==
    [springs |-> SubSeq(row.springs, 1, (Len(row.springs) - 4) \div 5),
     blocks  |-> SubSeq(row.blocks, 1, Len(row.blocks) \div 5)]

\* C12: the count part2 returns for the rewritten row is at least the count of
\* the row before the rewrite.
C12_ExpandedNotSmaller ==
    (part = 2 /\ pc # "expand")
        => \A k \in 1..Len(counts) :
              counts[k] >= count_arrangements(Unexpand(rows[k]), <<>>).n

\* the exact sum of the counts of the rows
ExactTotal ==
    SumTo([k \in 1..Len(rows) |-> Placements(rows[k].springs, rows[k].blocks)], 1, Len(rows))

\* C8: the count is never silently wrapped: a value that is returned is the
\* exact count of every row, and their exact sum.
C8_NeverWrapsSilently ==
    /\ \A k \in 1..Len(counts) : counts[k] = Placements(rows[k].springs, rows[k].blocks)
    /\ pc = "done" => result = ExactTotal

\* the two formulations of the exact count agree
PlacementsIsBruteForce ==
    part = 1 => \A k \in 1..Len(rows) :
        Placements(rows[k].springs, rows[k].blocks) = BruteForce(rows[k])


-----------------------------------------------------------------------------
(* Day 23: longest simple path by depth-first search (src/src/day23.rs) *)

\* Option::None in a neighbor slot; Some((idx, dist)) is <<idx, dist>>
None23 == <<>>

\* the number of slots of EnumMap<Dir, _>: North, South, East, West
Slots23 == 4

\* graph.start: the first vertex grid_to_graph creates
Start23 == 0

\* the graph with vertices 0..n-1 whose edges are E (pairs <<u, v>>) with the
\* lengths w: the targets of a vertex fill its slots in increasing order
GraphOf23(n, E, w) ==
    [u \in 1..n |->
        [k \in 1..Slots23 |->
            LET out == {e \in E : e[1] = u - 1 /\ Cardinality({f \in E : f[1] = u - 1 /\ f[2] < e[2]}) = k - 1}
            IN  IF out = {} THEN None23
                ELSE LET e == CHOOSE e \in out : TRUE IN <<e[2], w[e]>>]]

\* a frame of dfs: its arguments start and dist, the local max_dist, the slot
\* k the loop is at (0 before the first statement), and, as history, the
\* visited array at the time of the call
Frame23(start, dist, vis) ==
    [start |-> start, dist |-> dist, max_dist |-> 0, k |-> 0, entry |-> vis]

Max2(a, b) == IF a >= b THEN a ELSE b

\* visited[start] = true
Mark(vis, v) == [vis EXCEPT ![v + 1] = TRUE]

\* mutant: the vertex stays marked on return
Unmark_Keep(vis, v) == vis

\* visited[start] = false
Unmark(vis, v) == [vis EXCEPT ![v + 1] = FALSE]

Init23 ==
    /\ pc = "dfs"
    /\ \E n \in 2..MaxVertices23 :
         \E E \in {F \in SUBSET ((0..(n - 1)) \X (0..(n - 1))) : Cardinality(F) <= MaxEdges23} :
            \E w \in [E -> 1..MaxDist23] :
                /\ graph23 = GraphOf23(n, E, w)
                /\ end23 \in 0..(n - 1)
    /\ visited23 = [v \in 1..Len(graph23) |-> FALSE]
    /\ stack23 = <<Frame23(Start23, 0, visited23)>>
    /\ ret23 = 0
    /\ result = 0
    /\ Idle17
    /\ Idle14
    /\ Idle12
    /\ Idle6
    /\ Idle5

Top23 == stack23[Len(stack23)]

\* a call of dfs returns val: the frame is dropped and the caller, if there
\* is one, takes the maximum and moves to its next slot; the call of
\* longest_path returns what the outermost call returned
Return23(val) ==
    /\ ret23' = val
    /\ IF Len(stack23) = 1
       THEN /\ stack23' = <<>>
            /\ pc' = "done"
            /\ result' = val
       ELSE /\ LET caller == stack23[Len(stack23) - 1] IN
                stack23' = SubSeq(stack23, 1, Len(stack23) - 2)
                              \o <<[caller EXCEPT !.max_dist = Max2(caller.max_dist, val),
                                                  !.k = caller.k + 1]>>
            /\ pc' = pc
            /\ result' = result

\* `if start == end { return dist; }`
ReachEnd ==
    /\ pc = "dfs"
    /\ Top23.k = 0
    /\ Top23.start = end23
    /\ Return23(Top23.dist)
    /\ UNCHANGED <<graph23, end23, visited23, vars17, vars14, vars12, vars6, vars5>>

\* `visited[start] = true; let mut max_dist = 0;`
Enter ==
    /\ pc = "dfs"
    /\ Top23.k = 0
    /\ Top23.start # end23
    /\ visited23' = Mark(visited23, Top23.start)
    /\ stack23' = [stack23 EXCEPT ![Len(stack23)].k = 1, ![Len(stack23)].max_dist = 0]
    /\ UNCHANGED <<pc, result, graph23, end23, ret23, vars17, vars14, vars12, vars6, vars5>>

\* the slot the loop of the innermost frame is at
Slot23 == graph23[Top23.start + 1][Top23.k]

\* the slot holds a neighbor that is not visited
Open23 == Slot23 # None23 /\ ~visited23[Slot23[1] + 1]

\* a loop iteration over an empty slot or a visited neighbor
Skip ==
    /\ pc = "dfs"
    /\ Top23.k \in 1..Slots23
    /\ ~Open23
    /\ stack23' = [stack23 EXCEPT ![Len(stack23)].k = Top23.k + 1]
    /\ UNCHANGED <<pc, result, graph23, end23, visited23, ret23, vars17, vars14, vars12, vars6, vars5>>

\* a loop iteration that calls dfs(graph, visited, *idx, end, dist + neighbor_dist)
Recurse ==
    /\ pc = "dfs"
    /\ Top23.k \in 1..Slots23
    /\ Open23
    /\ stack23' = Append(stack23, Frame23(Slot23[1], Top23.dist + Slot23[2], visited23))
    /\ UNCHANGED <<pc, result, graph23, end23, visited23, ret23, vars17, vars14, vars12, vars6, vars5>>

\* `visited[start] = false; max_dist`
Leave ==
    /\ pc = "dfs"
    /\ Top23.k = Slots23 + 1
    /\ visited23' = Unmark(visited23, Top23.start)
    /\ Return23(Top23.max_dist)
    /\ UNCHANGED <<graph23, end23, vars17, vars14, vars12, vars6, vars5>>

Next23 == ReachEnd \/ Enter \/ Skip \/ Recurse \/ Leave

Spec23 == Init23 /\ [][Next23]_vars


\* --- the specification of the result: the longest simple path

\* the length of the longest edge from u to v, 0 if there is none
EdgeLen(g, u, v) ==
    LET ds == {g[u + 1][k][2] : k \in {m \in 1..Slots23 : g[u + 1][m] # None23 /\ g[u + 1][m][1] = v}}
    IN  IF ds = {} THEN 0 ELSE CHOOSE d \in ds : \A d2 \in ds : d2 <= d

\* the sequences of pairwise different vertices from a to b along edges
SimplePaths(g, a, b) ==
    {p \in UNION {[1..m -> 0..(Len(g) - 1)] : m \in 1..Len(g)} :
        /\ p[1] = a
        /\ p[Len(p)] = b
        /\ \A x, y \in 1..Len(p) : p[x] = p[y] => x = y
        /\ \A x \in 1..(Len(p) - 1) : EdgeLen(g, p[x], p[x + 1]) > 0}

PathLen(g, p) == SumTo([x \in 1..(Len(p) - 1) |-> EdgeLen(g, p[x], p[x + 1])], 1, Len(p) - 1)

\* the greatest total length of a simple path from a to b, 0 if there is none
LongestSimple(g, a, b) ==
    LET ls == {PathLen(g, p) : p \in SimplePaths(g, a, b)} \cup {0}
    IN  CHOOSE l \in ls : \A l2 \in ls : l2 <= l

\* a step in which a call of dfs returns leaves visited as the call found it
RestoresVisited ==
    (pc = "dfs" /\ Len(stack23') < Len(stack23)) => visited23' = Top23.entry

\* the vertices of the calls in progress are pairwise different, and the
\* visited ones are those of the calls that have marked their vertex
PathIsSimple ==
    /\ \A x, y \in 1..Len(stack23) : stack23[x].start = stack23[y].start => x = y
    /\ \A v \in 1..Len(visited23) :
          visited23[v] <=> \E x \in 1..Len(stack23) : stack23[x].start = v - 1 /\ stack23[x].k >= 1

\* the top-level call has returned the longest simple path, with visited all false
ReturnsLongest ==
    pc = "done" =>
        /\ \A v \in 1..Len(visited23) : ~visited23[v]
        /\ result = LongestSimple(graph23, Start23, end23)

\* C28: dfs restores the visited array on return (all false after the
\* top-level call), no vertex marked visited on the path being explored is
\* entered again, and longest_path returns the maximum total length over the
\* simple paths from start to end, 0 if there is none.
C28_DfsRestoresVisited ==
    /\ [][RestoresVisited]_vars
    /\ [](PathIsSimple /\ ReturnsLongest)

\* a search has returned the length of a path of two edges after it backed
\* out of a longer walk, and a vertex was met again while it was marked
C28_Witness ==
    /\ pc = "done"
    /\ Len(graph23) = 3
    /\ end23 = 2
    /\ result = LongestSimple(graph23, Start23, end23)
    /\ result > EdgeLen(graph23, 0, 2)
    /\ EdgeLen(graph23, 0, 2) > 0
    /\ EdgeLen(graph23, 1, 0) > 0
    /\ \A v \in 1..3 : ~visited23[v]


-----------------------------------------------------------------------------
(* Day 5: composition of range maps (src/src/day5.rs) *)

MapRange(dst, src, len) == [dst |-> dst, src |-> src, len |-> len]

\* MapRange::take (its assertion len <= self.len holds at every call of compose)
take(r, len) == [dst |-> r.dst + len, src |-> r.src + len, len |-> r.len - len]

\* ranges.partition_point(|r| r.src <= seed), on ranges sorted by src
partition_point(ranges, seed) ==
    Cardinality({k \in 1..Len(ranges) : ranges[k].src <= seed})

\* Map::map
Map_map(ranges, seed) ==
    LET n == partition_point(ranges, seed) IN
    IF n = 0 THEN seed
    ELSE IF seed - ranges[n].src < ranges[n].len
         THEN ranges[n].dst + (seed - ranges[n].src)
         ELSE seed

RECURSIVE SortedOrders(_, _, _)
\* sort_unstable_by_key: every order of the ranges of seq with the indices S
\* in which the keys do not decrease (ranges of equal key come in any order);
\* byDst selects the key dst, the key is src otherwise
SortedOrders(seq, S, byDst) ==
    IF S = {} THEN {<<>>}
    ELSE LET key(k) == IF byDst THEN seq[k].dst ELSE seq[k].src
             least  == {m \in S : \A k \in S : key(m) <= key(k)}
         IN  UNION {{<<seq[m]>> \o t : t \in SortedOrders(seq, S \ {m}, byDst)} : m \in least}

\* --- the inputs of the model

Ranges5 == {MapRange(d, s, l) : d \in 0..MaxVal5, s \in 0..MaxVal5, l \in 1..MaxLen5}

\* the maps parse_map builds: ranges sorted by src, with pairwise disjoint
\* source ranges
Maps5 ==
    UNION {{m \in [1..n -> Ranges5] :
                \A k \in 1..(n - 1) : m[k].src + m[k].len <= m[k + 1].src} : n \in 0..MaxRanges5}

\* the seeds the maps of the model can tell apart
Seeds5 == 0..(2 * (MaxVal5 + MaxLen5))

\* --- compose as a state machine

\* lhs_ranges = self.ranges.clone(); rhs_ranges = rhs.ranges.clone();
\* rhs_ranges.sort_unstable_by_key(|r| r.dst); out_ranges = Vec::new(); (i, j) = (0, 0)
Init5 ==
    /\ pc = "merge"
    /\ lhs5 \in Maps5
    /\ rhs5 \in Maps5
    /\ lhs_ranges = lhs5
    /\ rhs_ranges \in SortedOrders(rhs5, 1..Len(rhs5), TRUE)
    /\ out_ranges = <<>>
    /\ i5 = 0
    /\ j5 = 0
    /\ result = 0
    /\ Idle17
    /\ Idle14
    /\ Idle12
    /\ Idle6
    /\ Idle23

\* `while i < lhs_ranges.len() && j < rhs_ranges.len()`
InMerge == pc = "merge" /\ i5 < Len(lhs_ranges) /\ j5 < Len(rhs_ranges)

lhs_range == lhs_ranges[i5 + 1]

rhs_range == rhs_ranges[j5 + 1]

\* an iteration that steps over a range used up: lhs first, then rhs
MergeSkip ==
    /\ InMerge
    /\ lhs_range.len = 0 \/ rhs_range.len = 0
    /\ i5' = IF lhs_range.len = 0 THEN i5 + 1 ELSE i5
    /\ j5' = IF lhs_range.len = 0 THEN j5 ELSE j5 + 1
    /\ UNCHANGED <<pc, result, lhs5, rhs5, lhs_ranges, rhs_ranges, out_ranges, vars17, vars14, vars12, vars6, vars23>>

\* `if lhs_range.src < rhs_range.dst`
MergeLhs ==
    /\ InMerge
    /\ lhs_range.len # 0 /\ rhs_range.len # 0
    /\ lhs_range.src < rhs_range.dst
    /\ LET len == Min2(rhs_range.dst - lhs_range.src, lhs_range.len) IN
        /\ out_ranges' = Append(out_ranges, MapRange(lhs_range.dst, lhs_range.src, len))
        /\ lhs_ranges' = [lhs_ranges EXCEPT ![i5 + 1] = take(lhs_range, len)]
    /\ UNCHANGED <<pc, result, lhs5, rhs5, rhs_ranges, i5, j5, vars17, vars14, vars12, vars6, vars23>>

\* `if rhs_range.dst < lhs_range.src`
MergeRhs ==
    /\ InMerge
    /\ lhs_range.len # 0 /\ rhs_range.len # 0
    /\ rhs_range.dst < lhs_range.src
    /\ LET len == Min2(lhs_range.src - rhs_range.dst, rhs_range.len) IN
        /\ out_ranges' = Append(out_ranges, MapRange(rhs_range.dst, rhs_range.src, len))
        /\ rhs_ranges' = [rhs_ranges EXCEPT ![j5 + 1] = take(rhs_range, len)]
    /\ UNCHANGED <<pc, result, lhs5, rhs5, lhs_ranges, i5, j5, vars17, vars14, vars12, vars6, vars23>>

\* the two ranges start at the same intermediate value
MergeBoth ==
    /\ InMerge
    /\ lhs_range.len # 0 /\ rhs_range.len # 0
    /\ lhs_range.src = rhs_range.dst
    /\ LET len == Min2(lhs_range.len, rhs_range.len) IN
        /\ out_ranges' = Append(out_ranges, MapRange(lhs_range.dst, rhs_range.src, len))
        /\ lhs_ranges' = [lhs_ranges EXCEPT ![i5 + 1] = take(lhs_range, len)]
        /\ rhs_ranges' = [rhs_ranges EXCEPT ![j5 + 1] = take(rhs_range, len)]
    /\ UNCHANGED <<pc, result, lhs5, rhs5, i5, j5, vars17, vars14, vars12, vars6, vars23>>

\* an iteration of `while i < lhs_ranges.len()`
DrainLhs ==
    /\ pc = "merge"
    /\ ~InMerge
    /\ i5 < Len(lhs_ranges)
    /\ out_ranges' = IF lhs_range.len = 0 THEN out_ranges ELSE Append(out_ranges, lhs_range)
    /\ i5' = i5 + 1
    /\ UNCHANGED <<pc, result, lhs5, rhs5, lhs_ranges, rhs_ranges, j5, vars17, vars14, vars12, vars6, vars23>>

\* an iteration of `while j < rhs_ranges.len()`
DrainRhs ==
    /\ pc = "merge"
    /\ i5 >= Len(lhs_ranges)
    /\ j5 < Len(rhs_ranges)
    /\ out_ranges' = IF rhs_range.len = 0 THEN out_ranges ELSE Append(out_ranges, rhs_range)
    /\ j5' = j5 + 1
    /\ UNCHANGED <<pc, result, lhs5, rhs5, lhs_ranges, rhs_ranges, i5, vars17, vars14, vars12, vars6, vars23>>

\* out_ranges.sort_unstable_by_key(|r| r.src); Map { ranges: out_ranges }
SortOut ==
    /\ pc = "merge"
    /\ i5 >= Len(lhs_ranges)
    /\ j5 >= Len(rhs_ranges)
    /\ out_ranges' \in SortedOrders(out_ranges, 1..Len(out_ranges), FALSE)
    /\ pc' = "done"
    /\ UNCHANGED <<result, lhs5, rhs5, lhs_ranges, rhs_ranges, i5, j5, vars17, vars14, vars12, vars6, vars23>>

Next5 == MergeSkip \/ MergeLhs \/ MergeRhs \/ MergeBoth \/ DrainLhs \/ DrainRhs \/ SortOut

Spec5 == Init5 /\ [][Next5]_vars

\* C29: for all maps lhs and rhs with pairwise disjoint source ranges and every
\* seed s, lhs.compose(rhs).map(s) = lhs.map(rhs.map(s)).
C29_ComposeIsComposition ==
    pc = "done" =>
        \A seed \in Seeds5 : Map_map(out_ranges, seed) = Map_map(lhs5, Map_map(rhs5, seed))


-----------------------------------------------------------------------------
(* Day 6: counting the ways to beat a record (src/src/day6.rs) *)

\* usize::MAX + 1 of the scaled-down usize; t * t and 4 * r of the races of
\* the model stay below it
Usize6 == 2 ^ UsizeBits6

\* usize::isqrt: the floor of the square root
isqrt(n) == CHOOSE q \in 0..n : q * q <= n /\ n < (q + 1) * (q + 1)

\* usize::saturating_sub
saturating_sub(a, b) == IF a >= b THEN a - b ELSE 0

\* `lo * (t - lo)` without overflow checks: both operations wrap
WrappedProduct(t, lo) == (lo * ((Usize6 + t - lo) % Usize6)) % Usize6

\* `t - 2 * lo + 1` without overflow checks
WrappedWays(t, lo) == (2 * Usize6 + t - 2 * lo + 1) % Usize6

Init6 ==
    /\ pc = "begin"
    /\ t6 \in 0..MaxTime6
    /\ r6 \in 0..MaxRecord6
    /\ lo6 = 0
    /\ result = 0
    /\ Idle17
    /\ Idle14
    /\ Idle12
    /\ Idle5
    /\ Idle23

\* ways_to_win up to its loop: the radicand, the early return of 0, the first
\* lo and the assertion
Begin6 ==
    /\ pc = "begin"
    /\ IF t6 * t6 < 4 * r6
       THEN /\ pc' = "done"
            /\ result' = 0
            /\ lo6' = lo6
       ELSE LET sqrt == isqrt(t6 * t6 - 4 * r6)
                lo   == saturating_sub(t6, sqrt + 2) \div 2
            IN  /\ lo6' = lo
                /\ pc' = IF lo * (t6 - lo) <= r6 THEN "scan" ELSE "panic_assert"
                /\ result' = result
    /\ UNCHANGED <<t6, r6, vars17, vars14, vars12, vars5, vars23>>

\* the loop condition `lo * (t - lo) <= r` holds: `lo += 1`.  For lo > t the
\* subtraction overflows: a panic in a build with overflow checks, and the
\* wrapped product in a build without
ScanOn ==
    /\ pc = "scan"
    /\ \E checked \in (IF lo6 > t6 THEN BOOLEAN ELSE {FALSE}) :
        /\ checked \/ WrappedProduct(t6, lo6) <= r6
        /\ pc' = IF checked THEN "panic_overflow" ELSE "scan"
        /\ lo6' = IF checked THEN lo6 ELSE lo6 + 1
    /\ UNCHANGED <<result, t6, r6, vars17, vars14, vars12, vars5, vars23>>

\* the loop condition fails: `t - 2 * lo + 1` is returned.  For 2 * lo > t the
\* subtraction overflows: a panic, or the wrapped value
ScanEnd ==
    /\ pc = "scan"
    /\ WrappedProduct(t6, lo6) > r6
    /\ \E checked \in (IF 2 * lo6 > t6 THEN BOOLEAN ELSE {FALSE}) :
        /\ pc' = IF checked THEN "panic_overflow" ELSE "done"
        /\ result' = IF checked THEN result ELSE WrappedWays(t6, lo6)
    /\ UNCHANGED <<t6, r6, lo6, vars17, vars14, vars12, vars5, vars23>>

Next6 == Begin6 \/ ScanOn \/ ScanEnd

Spec6 == Init6 /\ [][Next6]_vars

\* the number of hold times n in 0..t that beat the record
Wins(t, r) == Cardinality({n \in 0..t : n * (t - n) > r})

\* C30: ways_to_win returns the number of n in 0..t with n * (t - n) > r, its
\* assertion holds when it is reached, and its loop ends without evaluating
\* t - lo for lo > t, also when no n beats the record although t * t >= 4 * r.
C30_WaysToWin ==
    /\ pc # "panic_assert"
    /\ pc # "panic_overflow"
    /\ pc = "scan" => lo6 <= t6
    /\ pc = "done" => result = Wins(t6, r6)

====
